---- MODULE Spec2Model ----
(***************************************************************************)
(* Model of result.h: the result_t enumeration, the guarded early-exit     *)
(* macros ERR_GOTO, ERR_RET, ERR_RET_VOID and ERR_RET_RESULT, the          *)
(* diagnostic hook RESULT_ASSERT_FAIL_FUNCTION and the description lookup  *)
(* result_get_string.                                                      *)
(*                                                                         *)
(* A macro is text expanded inside an enclosing function, so the model     *)
(* runs one enclosing function at a time: the macro is its first           *)
(* statement, one statement follows it, and the function has local labels. *)
(* Every statement of a macro's expansion is one action.                   *)
(***************************************************************************)
EXTENDS Integers, Sequences, FiniteSets

(* ------------------------------ bounds -------------------------------- *)
\* int conditions range over -MaxCond..MaxCond
MaxCond == 2
\* the high word of a 64-bit condition ranges over -MaxHigh..MaxHigh
MaxHigh == 1
\* double conditions are n/2 for n in -MaxNum..MaxNum
MaxNum == 3
\* return_value arguments range over 0..MaxReturnValue
MaxReturnValue == 2
\* result_get_string is tried on -MaxOutOfRange.._RESULT_COUNT+MaxOutOfRange
MaxOutOfRange == 2

(* --------------------------- result_t --------------------------------- *)
\* typedef enum result { ... } result_t: the enumerators in declaration order
\* a faulty enumeration: an enumerator added after the terminal marker
result_t_marker_not_last ==
    << "RESULT_OK",
       "RESULT_ERROR_ARGUMENT_INVALID",
       "RESULT_ERROR_MEMORY_NOT_ENOUGH",
       "RESULT_ERROR_HARDWARE_NO_DEVICE",
       "RESULT_ERROR_HARDWARE_BUSY",
       "RESULT_ERROR_HARDWARE_IO",
       "_RESULT_COUNT",
       "RESULT_ERROR_OTHER" >>
result_t ==
    << "RESULT_OK",
       "RESULT_ERROR_ARGUMENT_INVALID",
       "RESULT_ERROR_MEMORY_NOT_ENOUGH",
       "RESULT_ERROR_HARDWARE_NO_DEVICE",
       "RESULT_ERROR_HARDWARE_BUSY",
       "RESULT_ERROR_HARDWARE_IO",
       "RESULT_ERROR_OTHER",
       "_RESULT_COUNT" >>

\* C gives the first enumerator 0 and each next one the previous value plus 1.
\* An enumerator that is not declared has no value (-1 here).
EnumValue(name) ==
    IF \E i \in 1..Len(result_t) : result_t[i] = name
    THEN (CHOOSE i \in 1..Len(result_t) :
              /\ result_t[i] = name
              /\ \A j \in 1..(i - 1) : result_t[j] # name) - 1
    ELSE -1

RESULT_OK == EnumValue("RESULT_OK")
RESULT_ERROR_ARGUMENT_INVALID == EnumValue("RESULT_ERROR_ARGUMENT_INVALID")
RESULT_ERROR_MEMORY_NOT_ENOUGH == EnumValue("RESULT_ERROR_MEMORY_NOT_ENOUGH")
RESULT_ERROR_HARDWARE_NO_DEVICE == EnumValue("RESULT_ERROR_HARDWARE_NO_DEVICE")
RESULT_ERROR_HARDWARE_BUSY == EnumValue("RESULT_ERROR_HARDWARE_BUSY")
RESULT_ERROR_HARDWARE_IO == EnumValue("RESULT_ERROR_HARDWARE_IO")
RESULT_ERROR_OTHER == EnumValue("RESULT_ERROR_OTHER")
_RESULT_COUNT == EnumValue("_RESULT_COUNT")

\* the real outcome kinds: every enumerator before the terminal marker
ResultKinds == 0..(_RESULT_COUNT - 1)

(* ------------------------ condition arguments ------------------------- *)
\* A condition expression has a C type and a value:
\*   int        v             the value v
\*   long long  hi, lo        the value hi * 2^32 + (lo taken as unsigned);
\*                            lo is the low 32-bit word read as a signed int
\*   double     num / den     a fraction
IntConditions ==
    { [type |-> "int", v |-> n, hi |-> 0, lo |-> 0, num |-> 0, den |-> 1] :
        n \in (-MaxCond)..MaxCond }
LongLongConditions ==
    { [type |-> "long long", v |-> 0, hi |-> h, lo |-> l, num |-> 0, den |-> 1] :
        h \in (-MaxHigh)..MaxHigh, l \in {-1, 0, 1} }
DoubleConditions ==
    { [type |-> "double", v |-> 0, hi |-> 0, lo |-> 0, num |-> n, den |-> 2] :
        n \in (-MaxNum)..MaxNum }
Conditions == IntConditions \cup LongLongConditions \cup DoubleConditions

\* C truthiness of the condition itself: it compares unequal to 0
Truthy(c) ==
    CASE c.type = "int" -> c.v # 0
      [] c.type = "long long" -> c.hi # 0 \/ c.lo # 0
      [] c.type = "double" -> c.num # 0

\* a quotient truncated toward zero, as C converts a double to an integer
TruncDiv(n, d) == IF n >= 0 THEN n \div d ELSE -((-n) \div d)

\* a faulty conversion: the truth value of the condition, as !!(condition)
CastIntTruthiness(c) == IF Truthy(c) THEN 1 ELSE 0
\* (int)(condition): an int is unchanged, a 64-bit integer keeps its low
\* 32-bit word, a double loses its fraction
CastInt(c) ==
    CASE c.type = "int" -> c.v
      [] c.type = "long long" -> c.lo
      [] c.type = "double" -> TruncDiv(c.num, c.den)

(* ------------------------- result_get_string -------------------------- *)
\* a const char*: NULL or a pointer to a string
NULL == [null |-> TRUE, str |-> ""]
PointerTo(s) == [null |-> FALSE, str |-> s]
\* the description table: one string per real outcome kind, indexed by kind
result_strings ==
    << "OK",
       "invalid argument",
       "not enough memory",
       "no device",
       "device busy",
       "I/O error",
       "other error" >>

\* no slot of the table was read
NoIndex == -1
\* what a read of slot i of the table gives: past its end, whatever is there
TableRead(i) ==
    IF i \in 0..(Len(result_strings) - 1)
    THEN PointerTo(result_strings[i + 1])
    ELSE PointerTo("<out of bounds>")

\* a faulty lookup: the last real kind is taken for the terminal marker
result_get_string_short(r) ==
    IF r < 0 \/ r >= RESULT_ERROR_OTHER
    THEN [ret |-> NULL, index |-> NoIndex]
    ELSE [ret |-> TableRead(r), index |-> r]
\* a faulty lookup: the terminal marker is taken for a real kind
result_get_string_long(r) ==
    IF r < 0 \/ r > _RESULT_COUNT
    THEN [ret |-> NULL, index |-> NoIndex]
    ELSE [ret |-> TableRead(r), index |-> r]
\* const char* result_get_string(result_t result): NULL for a result outside
\* the real kinds, else the kind's slot of the table
result_get_string(r) ==
    IF r < 0 \/ r >= _RESULT_COUNT
    THEN [ret |-> NULL, index |-> NoIndex]
    ELSE [ret |-> TableRead(r), index |-> r]

(* --------------------------- diagnostic hook -------------------------- *)
\* RESULT_ASSERT_FAIL_FUNCTION(): assert(0) when RESULT_ASSERT is defined,
\* nothing otherwise.  defined is the build's RESULT_ASSERT switch.
RESULT_ASSERT_FAIL_FUNCTION(defined) == IF defined THEN "assert(0)" ELSE ""

(* ------------------------- the macros' bodies ------------------------- *)
CondMacros == {"ERR_GOTO", "ERR_RET", "ERR_RET_VOID"}
Macros == CondMacros \cup {"ERR_RET_RESULT"}
Labels == {"label_a", "label_b"}
ReturnValues == 0..MaxReturnValue

\* a label or statement that is not there
None == "none"
\* an identifier the enclosing scope does not declare has no value
Undeclared == -1
\* an argument the expanded macro does not take
NoCondition ==
    [type |-> "none", v |-> 0, hi |-> 0, lo |-> 0, num |-> 0, den |-> 1]
NoValue == 0
\* what the enclosing function returned: nothing yet, from return; or a value
NoReturn == [kind |-> "none", v |-> 0]
VoidReturn == [kind |-> "void", v |-> 0]
ValueReturn(x) == [kind |-> "value", v |-> x]

\* a faulty block: the hook placed after the control transfer
IfBlockHookLast(m) ==
    CASE m = "ERR_GOTO" -> << "goto", "hook" >>
      [] m = "ERR_RET" -> << "return", "hook" >>
      [] m = "ERR_RET_VOID" -> << "return void", "hook" >>
      [] m = "ERR_RET_RESULT" -> << "return result", "hook" >>
\* a faulty block: the control transfer left out
IfBlockNoTransfer(m) == << "hook" >>
\* the statements inside the if of each macro, in source order
IfBlock(m) ==
    CASE m = "ERR_GOTO" -> << "hook", "goto" >>
      [] m = "ERR_RET" -> << "hook", "return" >>
      [] m = "ERR_RET_VOID" -> << "hook", "return void" >>
      [] m = "ERR_RET_RESULT" -> << "hook", "return result" >>

VARIABLES
    RESULT_ASSERT,        \* whether the build defines RESULT_ASSERT
    pc,                   \* where the enclosing function is
    ip,                   \* the statement of IfBlock(macro) to run next
    macro,                \* the macro the enclosing function expands
    condition,            \* the macro's condition argument
    goto_label,           \* ERR_GOTO's goto_label argument
    return_value,         \* ERR_RET's return_value argument
    result,               \* ERR_RET_RESULT's result argument
    _ERRRESULT,           \* the enclosing scope's _ERRRESULT, or Undeclared
    _ERR_RET_CONDITION,   \* the macro's local int
    _ERR_RESULT,          \* ERR_RET_RESULT's local result_t
    trace,                \* the statements run so far in this function
    at_label,             \* the label control was transferred to
    retval,               \* what the enclosing function returned
    lookup_done,          \* whether result_get_string was called
    lookup_arg,           \* the last argument of result_get_string
    lookup_ret,           \* what it returned
    lookup_index          \* the table slot it read

vars ==
    << RESULT_ASSERT, pc, ip, macro, condition, goto_label, return_value,
       result, _ERRRESULT, _ERR_RET_CONDITION, _ERR_RESULT, trace, at_label,
       retval, lookup_done, lookup_arg, lookup_ret, lookup_index >>

lookup_vars == << lookup_done, lookup_arg, lookup_ret, lookup_index >>
arg_vars == << macro, condition, goto_label, return_value, result, _ERRRESULT >>
local_vars == << _ERR_RET_CONDITION, _ERR_RESULT >>

\* how often statement s was run
Count(s) == Cardinality({ i \in 1..Len(trace) : trace[i] = s })

Init ==
    /\ RESULT_ASSERT \in BOOLEAN
    /\ pc = "idle"
    /\ ip = 1
    /\ macro = None
    /\ condition = NoCondition
    /\ goto_label = None
    /\ return_value = NoValue
    /\ result = NoValue
    /\ _ERRRESULT = Undeclared
    /\ _ERR_RET_CONDITION = NoValue
    /\ _ERR_RESULT = NoValue
    /\ trace = << >>
    /\ at_label = None
    /\ retval = NoReturn
    /\ lookup_done = FALSE
    /\ lookup_arg = NoValue
    /\ lookup_ret = NULL
    /\ lookup_index = NoIndex

\* an enclosing function whose first statement is macro m is entered
Enter(m, c, l, rv, r, e) ==
    /\ pc = "idle"
    /\ macro' = m
    /\ condition' = c
    /\ goto_label' = l
    /\ return_value' = rv
    /\ result' = r
    /\ _ERRRESULT' = e
    /\ _ERR_RET_CONDITION' = NoValue
    /\ _ERR_RESULT' = NoValue
    /\ trace' = << >>
    /\ at_label' = None
    /\ retval' = NoReturn
    /\ ip' = 1
    /\ UNCHANGED << RESULT_ASSERT, lookup_vars >>

Call_ERR_GOTO ==
    \E c \in Conditions, l \in Labels :
        /\ Enter("ERR_GOTO", c, l, NoValue, NoValue, Undeclared)
        /\ pc' = "declare"

Call_ERR_RET ==
    \E c \in Conditions, rv \in ReturnValues :
        /\ Enter("ERR_RET", c, None, rv, NoValue, Undeclared)
        /\ pc' = "declare"

Call_ERR_RET_VOID ==
    \E c \in Conditions :
        /\ Enter("ERR_RET_VOID", c, None, NoValue, NoValue, Undeclared)
        /\ pc' = "declare"

\* ERR_RET_RESULT names _ERRRESULT, which the macro does not declare: the
\* expansion compiles only where the enclosing scope declares that name.
Call_ERR_RET_RESULT ==
    \E r \in ResultKinds, e \in ResultKinds \cup {Undeclared} :
        /\ Enter("ERR_RET_RESULT", NoCondition, None, NoValue, r, e)
        /\ pc' = IF e = Undeclared THEN "compile error" ELSE "declare"

(* ----------------------- the macros' statements ----------------------- *)
\* int _ERR_RET_CONDITION = (int)(condition);
Declare ==
    /\ pc = "declare"
    /\ macro \in CondMacros
    /\ _ERR_RET_CONDITION' = CastInt(condition)
    /\ trace' = Append(trace, "condition")
    /\ pc' = "if"
    /\ UNCHANGED << RESULT_ASSERT, ip, arg_vars, _ERR_RESULT, at_label, retval,
                    lookup_vars >>

\* result_t _ERR_RESULT = (result_t)(result);
DeclareResult ==
    /\ pc = "declare"
    /\ macro = "ERR_RET_RESULT"
    /\ _ERR_RESULT' = result
    /\ trace' = Append(trace, "result")
    /\ pc' = "if"
    /\ UNCHANGED << RESULT_ASSERT, ip, arg_vars, _ERR_RET_CONDITION, at_label,
                    retval, lookup_vars >>

\* if (_ERR_RET_CONDITION == 0) { ... }
\* } while (0) leaves the expansion when the test fails or the block ends
If ==
    /\ pc = "if"
    /\ macro \in CondMacros
    /\ pc' = IF _ERR_RET_CONDITION = 0 THEN "block" ELSE "next"
    /\ ip' = 1
    /\ UNCHANGED << RESULT_ASSERT, arg_vars, local_vars, trace, at_label,
                    retval, lookup_vars >>

\* if (_ERRRESULT != RESULT_OK) { ... }: the scope's _ERRRESULT is read,
\* not the local _ERR_RESULT
IfResult ==
    /\ pc = "if"
    /\ macro = "ERR_RET_RESULT"
    /\ pc' = IF _ERRRESULT # RESULT_OK THEN "block" ELSE "next"
    /\ ip' = 1
    /\ UNCHANGED << RESULT_ASSERT, arg_vars, local_vars, trace, at_label,
                    retval, lookup_vars >>

\* the statement of the if block that runs next
Current == IF pc = "block" /\ ip <= Len(IfBlock(macro))
           THEN IfBlock(macro)[ip] ELSE None

\* RESULT_ASSERT_FAIL_FUNCTION();  assert(0) aborts the program, the empty
\* expansion leaves the empty statement
Hook ==
    /\ Current = "hook"
    /\ LET h == RESULT_ASSERT_FAIL_FUNCTION(RESULT_ASSERT) IN
        /\ trace' = Append(trace, IF h = "" THEN ";" ELSE h)
        /\ IF h = "assert(0)"
           THEN pc' = "aborted" /\ ip' = ip
           ELSE /\ ip' = ip + 1
                /\ pc' = IF ip + 1 <= Len(IfBlock(macro)) THEN "block" ELSE "next"
    /\ UNCHANGED << RESULT_ASSERT, arg_vars, local_vars, at_label, retval,
                    lookup_vars >>

\* a faulty jump: to another label of the function
GotoTargetOther(l) == CHOOSE k \in Labels : k # l
\* goto goto_label; the label control goes to
GotoTarget(l) == l
\* goto goto_label;
Goto ==
    /\ Current = "goto"
    /\ at_label' = GotoTarget(goto_label)
    /\ trace' = Append(trace, "goto")
    /\ pc' = "label"
    /\ UNCHANGED << RESULT_ASSERT, ip, arg_vars, local_vars, retval,
                    lookup_vars >>

\* return (return_value);
Return ==
    /\ Current = "return"
    /\ retval' = ValueReturn(return_value)
    /\ trace' = Append(trace, "return_value")
    /\ pc' = "returned"
    /\ UNCHANGED << RESULT_ASSERT, ip, arg_vars, local_vars, at_label,
                    lookup_vars >>

\* return;
ReturnVoid ==
    /\ Current = "return void"
    /\ retval' = VoidReturn
    /\ trace' = Append(trace, "return")
    /\ pc' = "returned"
    /\ UNCHANGED << RESULT_ASSERT, ip, arg_vars, local_vars, at_label,
                    lookup_vars >>

\* return _ERRRESULT;
ReturnResult ==
    /\ Current = "return result"
    /\ retval' = ValueReturn(_ERRRESULT)
    /\ trace' = Append(trace, "return _ERRRESULT")
    /\ pc' = "returned"
    /\ UNCHANGED << RESULT_ASSERT, ip, arg_vars, local_vars, at_label,
                    lookup_vars >>

(* ------------------ the rest of the enclosing function ---------------- *)
\* the statement that follows the macro
NextStatement ==
    /\ pc = "next"
    /\ trace' = Append(trace, "next statement")
    /\ pc' = "finished"
    /\ UNCHANGED << RESULT_ASSERT, ip, arg_vars, local_vars, at_label, retval,
                    lookup_vars >>

\* the statement at the label control was transferred to
LabelStatement ==
    /\ pc = "label"
    /\ trace' = Append(trace, at_label)
    /\ pc' = "finished"
    /\ UNCHANGED << RESULT_ASSERT, ip, arg_vars, local_vars, at_label, retval,
                    lookup_vars >>

\* the enclosing function is left; the caller may enter another one
Exit ==
    /\ pc \in {"finished", "returned"}
    /\ pc' = "idle"
    /\ ip' = 1
    /\ macro' = None
    /\ condition' = NoCondition
    /\ goto_label' = None
    /\ return_value' = NoValue
    /\ result' = NoValue
    /\ _ERRRESULT' = Undeclared
    /\ _ERR_RET_CONDITION' = NoValue
    /\ _ERR_RESULT' = NoValue
    /\ trace' = << >>
    /\ at_label' = None
    /\ retval' = NoReturn
    /\ UNCHANGED << RESULT_ASSERT, lookup_vars >>

(* ------------------------ the description lookup ---------------------- *)
\* a caller asks for the description of r, any integer passed as a result_t
LookupArgs == (-MaxOutOfRange)..(_RESULT_COUNT + MaxOutOfRange)
Lookup ==
    \E r \in LookupArgs :
        /\ pc = "idle"
        /\ lookup_done' = TRUE
        /\ lookup_arg' = r
        /\ lookup_ret' = result_get_string(r).ret
        /\ lookup_index' = result_get_string(r).index
        /\ UNCHANGED << RESULT_ASSERT, pc, ip, arg_vars, local_vars, trace,
                        at_label, retval >>

Next ==
    \/ Call_ERR_GOTO
    \/ Call_ERR_RET
    \/ Call_ERR_RET_VOID
    \/ Call_ERR_RET_RESULT
    \/ Declare
    \/ DeclareResult
    \/ If
    \/ IfResult
    \/ Hook
    \/ Goto
    \/ Return
    \/ ReturnVoid
    \/ ReturnResult
    \/ NextStatement
    \/ LabelStatement
    \/ Exit
    \/ Lookup

Spec == Init /\ [][Next]_vars

(* ============================== claims ================================ *)
\* control has left the macro's expansion
Left == pc \in {"next", "label", "returned", "aborted", "finished"}
\* the test of the macro has been decided
Tested == pc \in {"block"} \/ Left
\* the statements that transfer control out of the enclosing function's flow
Transfers == {"goto", "return_value", "return", "return _ERRRESULT"}
Transferred == \E i \in 1..Len(trace) : trace[i] \in Transfers
\* the hook's place in the block was run: assert(0), or the empty statement
HookRan == \E i \in 1..Len(trace) : trace[i] \in {"assert(0)", ";"}
\* the block of the if was entered
FailurePath ==
    \/ pc \in {"block", "aborted", "returned", "label"}
    \/ pc = "finished" /\ at_label # None
\* the strings of the description table
Descriptions == { result_strings[i] : i \in 1..Len(result_strings) }

\* C1: for every result r with RESULT_OK <= r <= RESULT_ERROR_OTHER,
\* result_get_string(r) returns a non-NULL pointer to a non-empty
\* description string.
C1_ValidKindHasDescription ==
    (lookup_done /\ lookup_arg \in RESULT_OK..RESULT_ERROR_OTHER)
        => /\ ~lookup_ret.null
           /\ lookup_ret.str # ""
           /\ lookup_ret.str \in Descriptions
C1_Witness ==
    /\ lookup_done
    /\ lookup_arg = RESULT_ERROR_OTHER
    /\ ~lookup_ret.null
    /\ lookup_ret.str # ""

\* C2: for _RESULT_COUNT and every integer outside 0..RESULT_ERROR_OTHER,
\* result_get_string returns NULL, never a description string, and reads no
\* slot of the table; no call reads a slot outside the table.
C2_OutOfRangeIsNull ==
    /\ (lookup_done /\ lookup_arg \notin 0..RESULT_ERROR_OTHER)
          => lookup_ret = NULL /\ lookup_index = NoIndex
    /\ lookup_done
          => lookup_index \in {NoIndex} \cup (0..(Len(result_strings) - 1))
C2_Witness ==
    /\ lookup_done
    /\ lookup_arg = _RESULT_COUNT
    /\ lookup_ret = NULL
    /\ lookup_index = NoIndex

\* what ERR_RET / ERR_RET_VOID make the enclosing function return
Fallback ==
    IF macro = "ERR_RET" THEN ValueReturn(return_value) ELSE VoidReturn

\* C3 as stated: for any condition that evaluates to false (0), ERR_RET
\* makes the enclosing function return exactly return_value and
\* ERR_RET_VOID makes it return; no statement after the macro is executed.
C3_FalseConditionReturns ==
    (macro \in {"ERR_RET", "ERR_RET_VOID"} /\ ~Truthy(condition) /\ Left)
        => /\ pc = "returned"
           /\ retval = Fallback
           /\ Count("next statement") = 0

\* C3 as amended: for any condition that evaluates to false (0), no
\* statement after the macro is executed; where RESULT_ASSERT is not defined
\* ERR_RET makes the enclosing function return exactly return_value and
\* ERR_RET_VOID makes it return; where RESULT_ASSERT is defined the hook's
\* assert(0) aborts the program before the return, and nothing is returned.
C3_FalseConditionReturnsOrAborts ==
    (macro \in {"ERR_RET", "ERR_RET_VOID"} /\ ~Truthy(condition) /\ Left)
        => /\ Count("next statement") = 0
           /\ IF RESULT_ASSERT
              THEN pc = "aborted" /\ retval = NoReturn
              ELSE pc = "returned" /\ retval = Fallback
C3_Witness ==
    /\ macro = "ERR_RET"
    /\ ~Truthy(condition)
    /\ return_value = MaxReturnValue
    /\ pc = "returned"
    /\ retval = ValueReturn(MaxReturnValue)

\* C4 as stated: for any condition that evaluates to false (0), ERR_GOTO
\* transfers control to exactly goto_label and never falls through to the
\* statement following the macro.
C4_FalseConditionJumps ==
    (macro = "ERR_GOTO" /\ ~Truthy(condition) /\ Left)
        => /\ pc \in {"label", "finished"}
           /\ at_label = goto_label
           /\ Count("next statement") = 0

\* C4 as amended: for any condition that evaluates to false (0), ERR_GOTO
\* never falls through to the statement following the macro; where
\* RESULT_ASSERT is not defined it transfers control to exactly goto_label;
\* where RESULT_ASSERT is defined the hook's assert(0) aborts the program
\* before the jump, and no label is reached.
C4_FalseConditionJumpsOrAborts ==
    (macro = "ERR_GOTO" /\ ~Truthy(condition) /\ Left)
        => /\ Count("next statement") = 0
           /\ IF RESULT_ASSERT
              THEN pc = "aborted" /\ at_label = None
              ELSE /\ pc \in {"label", "finished"}
                   /\ at_label = goto_label
                   /\ pc = "finished" => trace[Len(trace)] = goto_label
C4_Witness ==
    /\ macro = "ERR_GOTO"
    /\ ~Truthy(condition)
    /\ pc = "finished"
    /\ at_label = goto_label
    /\ trace = << "condition", ";", "goto", goto_label >>

\* C5 as stated: for any truthy condition, none of ERR_GOTO, ERR_RET and
\* ERR_RET_VOID alters control flow: no jump, no return, no hook, and
\* execution proceeds to the statement following the macro.
C5_TruthyConditionFallsThrough ==
    (macro \in CondMacros /\ Truthy(condition) /\ Left)
        => /\ pc \in {"next", "finished"}
           /\ at_label = None
           /\ retval = NoReturn
           /\ ~HookRan
           /\ ~Transferred
           /\ pc = "finished" => Count("next statement") = 1

\* C6 as stated: ERR_RET_RESULT(result) makes the enclosing function return
\* result unchanged when result is not RESULT_OK, and proceeds to the next
\* statement when it is RESULT_OK.
C6_ResultPassedThrough ==
    (macro = "ERR_RET_RESULT" /\ (Left \/ pc = "compile error"))
        => IF result # RESULT_OK
           THEN pc = "returned" /\ retval = ValueReturn(result)
           ELSE pc \in {"next", "finished"} /\ retval = NoReturn

\* the test of the macro failed: its block is to be run
TestFailed ==
    IF macro \in CondMacros THEN _ERR_RET_CONDITION = 0
    ELSE _ERRRESULT # Undeclared /\ _ERRRESULT # RESULT_OK

\* C7: on the failure path of every guarded construct the hook
\* RESULT_ASSERT_FAIL_FUNCTION() runs before the control transfer: with
\* RESULT_ASSERT defined it is assert(0) and the abort happens before any
\* jump or return; with RESULT_ASSERT undefined it is empty and only the
\* control transfer occurs.
C7_HookBeforeTransfer ==
    /\ (macro \in Macros /\ Left /\ TestFailed) => HookRan
    /\ \A j \in 1..Len(trace) :
          trace[j] \in Transfers
              => \E i \in 1..(j - 1) : trace[i] \in {"assert(0)", ";"}
    /\ (RESULT_ASSERT /\ HookRan)
          => /\ pc = "aborted"
             /\ trace[Len(trace)] = "assert(0)"
             /\ ~Transferred
             /\ at_label = None
             /\ retval = NoReturn
    /\ ~RESULT_ASSERT
          => /\ pc # "aborted"
             /\ Count("assert(0)") = 0
             /\ (HookRan /\ Left) => Transferred
C7_Witness ==
    /\ RESULT_ASSERT
    /\ macro = "ERR_GOTO"
    /\ pc = "aborted"
    /\ trace = << "condition", "assert(0)" >>

\* the names of the real outcome kinds
KindNames ==
    { "RESULT_OK", "RESULT_ERROR_ARGUMENT_INVALID",
      "RESULT_ERROR_MEMORY_NOT_ENOUGH", "RESULT_ERROR_HARDWARE_NO_DEVICE",
      "RESULT_ERROR_HARDWARE_BUSY", "RESULT_ERROR_HARDWARE_IO",
      "RESULT_ERROR_OTHER" }
FailureNames == KindNames \ {"RESULT_OK"}

\* C8: result_t has exactly one success value, RESULT_OK = 0, and six
\* pairwise distinct failure values 1..6; _RESULT_COUNT is 7, the number of
\* real kinds, is greater than every real kind and is not one of them.
C8_EnumerationShape ==
    /\ RESULT_OK = 0
    /\ { n \in KindNames : EnumValue(n) = RESULT_OK } = {"RESULT_OK"}
    /\ { EnumValue(n) : n \in FailureNames } = 1..6
    /\ \A m \in FailureNames, n \in FailureNames :
          EnumValue(m) = EnumValue(n) => m = n
    /\ _RESULT_COUNT = 7
    /\ _RESULT_COUNT = Cardinality(KindNames)
    /\ \A n \in KindNames : EnumValue(n) < _RESULT_COUNT
    /\ _RESULT_COUNT \notin { EnumValue(n) : n \in KindNames }
    /\ macro = "ERR_RET_RESULT"
          => result \in { EnumValue(n) : n \in KindNames }
C8_Witness ==
    /\ macro = "ERR_RET_RESULT"
    /\ result = RESULT_ERROR_OTHER
    /\ result = _RESULT_COUNT - 1
    /\ pc = "returned"
    /\ retval = ValueReturn(RESULT_ERROR_OTHER)

\* C9 as stated: each expansion of ERR_GOTO, ERR_RET or ERR_RET_VOID
\* evaluates its condition exactly once, whether it is true or false, and
\* ERR_RET evaluates return_value only when the condition is false and
\* never when it is true.
C9_SingleEvaluation ==
    /\ (macro \in CondMacros /\ pc # "declare") => Count("condition") = 1
    /\ macro = "ERR_RET"
          => /\ Count("return_value") <= 1
             /\ Count("return_value") = 1 => ~Truthy(condition)

\* that the int conversion of a condition is 0, said of its value: an int
\* that is 0, a 64-bit integer that is a multiple of 2^32 (its low word is
\* 0), a fraction strictly between -1 and 1
ConvertsToZero(c) ==
    CASE c.type = "int" -> c.v = 0
      [] c.type = "long long" -> c.lo = 0
      [] c.type = "double" -> -c.den < c.num /\ c.num < c.den

====
